---- MODULE Spec2Model ----
(***************************************************************************)
(* Model of chess_analyzer.evaluator.MoveEvaluator: the label table        *)
(* (get_move_label), the detectors, evaluate_move and the evaluate_game     *)
(* loop; and of chess_analyzer.engine.ChessEngine: get_evaluation and       *)
(* get_top_moves over analyze_position.  For the evaluator the engine's     *)
(* answers and the python-chess board are the environment, drawn from       *)
(* bounded sets; for the engine the environment is the UCI engine's info    *)
(* list and the connection.                                                 *)
(*                                                                          *)
(* Python values that may be a bool or an int (the value evaluate_move      *)
(* stores in MoveAssessment.brilliant) are records [isBool, n]; a bool is   *)
(* the int 0 or 1, as in Python, and truthiness is n # 0.                   *)
(***************************************************************************)
EXTENDS Integers, Sequences, FiniteSets

VARIABLES
    \* evaluate_game
    pc, n, idx, board, move_number, assessments,
    \* whether another game was evaluated before on the same MoveEvaluator, and
    \* the arguments and engine answers of the latest evaluate_move call
    prior, last_in,
    \* history of evaluate_game: the mainline nodes consumed so far (TRUE = the
    \* node's move is the null move) and the ply of each assessment's node
    mainline, assessed_ply,
    \* one call of evaluate_move, and what the engine answered during it
    mv_pc, mv_board, mv_move, mv_out, mv_eng,
    \* the threshold fields of the MoveEvaluator the call is made on
    mv_self,
    \* calls of get_move_label
    lb_pc, lb_in, lb_out,
    \* one call of _detect_only_move
    om_pc, om_in, om_out,
    \* one call of ChessEngine.get_evaluation or ChessEngine.get_top_moves
    en_pc, en_in, en_out,
    \* one call of _detect_book_move
    bk_pc, bk_in, bk_out,
    \* one call of _calculate_material_change
    mc_pc, mc_in, mc_out,
    \* one construction of GameAnalysis
    st_pc, st_in, st_out,
    \* one call of ChessEngine._safe_analyze
    sa_pc, sa_in, sa_attempt, sa_log, sa_out,
    \* one request to an API handler
    ap_pc, ap_in, ap_engine, ap_log, ap_out

vars == <<pc, n, idx, board, move_number, assessments, prior, last_in,
          mainline, assessed_ply,
          mv_pc, mv_board, mv_move, mv_out, mv_eng, mv_self, lb_pc, lb_in, lb_out,
          om_pc, om_in, om_out, en_pc, en_in, en_out,
          bk_pc, bk_in, bk_out, mc_pc, mc_in, mc_out, st_pc, st_in, st_out,
          sa_pc, sa_in, sa_attempt, sa_log, sa_out,
          ap_pc, ap_in, ap_engine, ap_log, ap_out>>

gameVars == <<pc, n, idx, board, move_number, assessments, prior, last_in,
              mainline, assessed_ply>>
moveVars == <<mv_pc, mv_board, mv_move, mv_out, mv_eng, mv_self>>
labelVars == <<lb_pc, lb_in, lb_out>>
onlyVars == <<om_pc, om_in, om_out>>
engineVars == <<en_pc, en_in, en_out>>
bookVars == <<bk_pc, bk_in, bk_out>>
materialVars == <<mc_pc, mc_in, mc_out>>
statsVars == <<st_pc, st_in, st_out>>
safeVars == <<sa_pc, sa_in, sa_attempt, sa_log, sa_out>>
apiVars == <<ap_pc, ap_in, ap_engine, ap_log, ap_out>>
\* the groups added to the evaluator's and the engine's calls
restVars == <<bookVars, materialVars, statsVars, safeVars, apiVars>>

(***************************************************************************)
(* Bounds of the model.                                                     *)
(***************************************************************************)
\* longest mainline (plies) evaluate_game is run on
MaxPlies == 3
\* longest list get_top_moves returns (the multipv actually answered)
MaxPV == 2
\* longest forced mate (moves) in an engine score
MaxMate == 2
\* most pieces on a board whose material is evaluated
MaxPieces == 2
\* most legal moves of a position _detect_only_move re-evaluates
MaxLegal == 2
\* largest loss_vs_best handed to get_move_label directly
MaxLossIn == 210

(***************************************************************************)
(* Thresholds set in MoveEvaluator.__init__ and evaluate_move.              *)
(***************************************************************************)
only_move_eval_threshold == -200
brilliant_eval_threshold == 600
NotFoundLoss == 500
\* the value get_evaluation and get_top_moves report for a forced mate
MateSentinel == 10000

(***************************************************************************)
(* Python bool/int values.                                                  *)
(***************************************************************************)
PyBool(b) == [isBool |-> TRUE, n |-> IF b THEN 1 ELSE 0]
PyInt(i) == [isBool |-> FALSE, n |-> i]
Truthy(v) == v.n # 0
\* Python's "a or b" and "a and b" return one of their operands
PyOr(a, b) == IF Truthy(a) THEN a ELSE b
PyAnd(a, b) == IF Truthy(a) THEN b ELSE a

(***************************************************************************)
(* MoveLabel.                                                               *)
(***************************************************************************)
MoveLabel == {"Brilliant", "Great Move", "Best Move", "Excellent", "Good",
              "Book", "Inaccuracy", "Miss", "Mistake", "Blunder"}

(***************************************************************************)
(* get_move_label(loss_vs_best, is_brilliant, is_book).  is_brilliant is    *)
(* tested for truthiness, is_book is a bool.                                *)
(***************************************************************************)
\* get_move_label without the "loss_vs_best == 0" branch
get_move_label_no_best(loss_vs_best, is_brilliant, is_book) ==
    IF Truthy(is_brilliant) THEN "Brilliant"
    ELSE IF is_book THEN "Book"
    ELSE IF loss_vs_best <= 10 THEN "Great Move"
    ELSE IF loss_vs_best <= 25 THEN "Excellent"
    ELSE IF loss_vs_best <= 50 THEN "Good"
    ELSE IF loss_vs_best <= 100 THEN "Inaccuracy"
    ELSE IF loss_vs_best <= 200 THEN "Mistake"
    ELSE "Blunder"

\* get_move_label with the book test ahead of the brilliant test
get_move_label_book_first(loss_vs_best, is_brilliant, is_book) ==
    IF is_book THEN "Book"
    ELSE IF Truthy(is_brilliant) THEN "Brilliant"
    ELSE IF loss_vs_best = 0 THEN "Best Move"
    ELSE IF loss_vs_best <= 10 THEN "Great Move"
    ELSE IF loss_vs_best <= 25 THEN "Excellent"
    ELSE IF loss_vs_best <= 50 THEN "Good"
    ELSE IF loss_vs_best <= 100 THEN "Inaccuracy"
    ELSE IF loss_vs_best <= 200 THEN "Mistake"
    ELSE "Blunder"

\* get_move_label with the Inaccuracy and Mistake thresholds exchanged
get_move_label_swapped(loss_vs_best, is_brilliant, is_book) ==
    IF Truthy(is_brilliant) THEN "Brilliant"
    ELSE IF is_book THEN "Book"
    ELSE IF loss_vs_best = 0 THEN "Best Move"
    ELSE IF loss_vs_best <= 10 THEN "Great Move"
    ELSE IF loss_vs_best <= 25 THEN "Excellent"
    ELSE IF loss_vs_best <= 50 THEN "Good"
    ELSE IF loss_vs_best <= 100 THEN "Mistake"
    ELSE IF loss_vs_best <= 200 THEN "Inaccuracy"
    ELSE "Blunder"

get_move_label(loss_vs_best, is_brilliant, is_book) ==
    IF Truthy(is_brilliant) THEN "Brilliant"
    ELSE IF is_book THEN "Book"
    ELSE IF loss_vs_best = 0 THEN "Best Move"
    ELSE IF loss_vs_best <= 10 THEN "Great Move"
    ELSE IF loss_vs_best <= 25 THEN "Excellent"
    ELSE IF loss_vs_best <= 50 THEN "Good"
    ELSE IF loss_vs_best <= 100 THEN "Inaccuracy"
    ELSE IF loss_vs_best <= 200 THEN "Mistake"
    ELSE "Blunder"

(***************************************************************************)
(* _detect_only_move(board, eval_before).  quick is the engine's depth-5    *)
(* evaluation of the position after each legal move of the board, one       *)
(* entry per legal move; it is read only below the threshold.               *)
(***************************************************************************)
\* the test of eval_before against the threshold left out
_detect_only_move_unguarded(quick, eval_before) ==
    IF Len(quick) = 1 THEN TRUE
    ELSE Cardinality({i \in 1..Len(quick) :
                         quick[i] > only_move_eval_threshold}) = 1

\* "moves_above_threshold == 1" read as "at least one"
_detect_only_move_at_least_one(quick, eval_before) ==
    IF eval_before <= only_move_eval_threshold
    THEN IF Len(quick) = 1 THEN TRUE
         ELSE Cardinality({i \in 1..Len(quick) :
                              quick[i] > only_move_eval_threshold}) >= 1
    ELSE FALSE

_detect_only_move(quick, eval_before) ==
    IF eval_before <= only_move_eval_threshold
    THEN IF Len(quick) = 1 THEN TRUE
         ELSE Cardinality({i \in 1..Len(quick) :
                              quick[i] > only_move_eval_threshold}) = 1
    ELSE FALSE

\* the number of self.engine.get_evaluation(board_copy, 5) calls one
\* _detect_only_move makes: one per legal move, inside the threshold test and
\* after the single-legal-move return
only_move_requests(quick, eval_before) ==
    IF eval_before <= only_move_eval_threshold
    THEN IF Len(quick) = 1 THEN 0 ELSE Len(quick)
    ELSE 0

(***************************************************************************)
(* _detect_sacrifice(board, eval_before, eval_after), called with the       *)
(* board BEFORE the move: it pushes board.peek() a second time on a copy    *)
(* and compares the material (pawn units) with -300.  b.rePushDelta is the  *)
(* material change of that second push.                                     *)
(***************************************************************************)
_detect_sacrifice(b, eval_before, eval_after) ==
    IF b.stackLen = 0 THEN FALSE
    ELSE IF b.rePushDelta < -300 /\ eval_after - eval_before > -200 THEN TRUE
    ELSE FALSE

(***************************************************************************)
(* _detect_surprise(shallow_moves, deep_moves, played_move).                *)
(***************************************************************************)
\* the test "not shallow_moves" left out
_detect_surprise_deep_only(shallow_moves, deep_moves, played_move) ==
    IF Len(deep_moves) = 0 THEN FALSE
    ELSE IF \E i \in 1..Len(shallow_moves) : shallow_moves[i].san = played_move
    THEN FALSE
    ELSE deep_moves[1].san = played_move

_detect_surprise(shallow_moves, deep_moves, played_move) ==
    IF Len(shallow_moves) = 0 \/ Len(deep_moves) = 0 THEN FALSE
    ELSE IF \E i \in 1..Len(shallow_moves) : shallow_moves[i].san = played_move
    THEN FALSE
    ELSE deep_moves[1].san = played_move

(***************************************************************************)
(* _detect_brilliant(loss_vs_best, eval_before, is_only_move, is_sacrifice, *)
(* is_surprise), on Python values: the result of "and"/"or" is an operand.  *)
(***************************************************************************)
_detect_brilliant(loss_vs_best, eval_before, is_only_move, is_sacrifice, is_surprise) ==
    LET near_best == PyBool(loss_vs_best <= brilliant_eval_threshold)
        not_already_winning == PyBool(eval_before.n <= brilliant_eval_threshold)
        has_brilliant_characteristic ==
            PyOr(PyOr(is_only_move, is_sacrifice), is_surprise)
    IN PyAnd(PyAnd(near_best, not_already_winning), has_brilliant_characteristic)

(***************************************************************************)
(* _detect_book_move(board, move).  The result is "raise" where the code    *)
(* reads move.piece_type and the Move object has no such attribute.         *)
(***************************************************************************)
_detect_book_move(b, m) ==
    IF b.stackLen < 15
    THEN IF b.fenCommon THEN "true"
         ELSE IF b.stackLen < 10
              THEN CASE m.pieceAttr = "missing" -> "raise"
                     [] m.pieceAttr = "develops" -> "true"
                     [] OTHER -> "false"
              ELSE "false"
    ELSE "false"

(***************************************************************************)
(* The loop of evaluate_move that finds the played move in shallow_moves.   *)
(***************************************************************************)
played_move_rank(shallow_moves, move_san) ==
    LET hits == {i \in 1..Len(shallow_moves) : shallow_moves[i].san = move_san}
    IN IF hits = {} THEN 0
       ELSE CHOOSE i \in hits : \A j \in hits : i <= j

loss_vs_best_of(shallow_moves, move_san) ==
    LET r == played_move_rank(shallow_moves, move_san)
    IN IF r = 0 THEN NotFoundLoss
       ELSE IF r > 1 THEN shallow_moves[1].eval - shallow_moves[r].eval
       ELSE 0

(***************************************************************************)
(* evaluate_move(board, move).  e holds the engine's answers to the calls   *)
(* the method makes: eval_before, shallow, eval_after, deep, quick.         *)
(* The result is [raised, a]: a is the MoveAssessment when nothing raised.  *)
(***************************************************************************)
NoAssessment ==
    [move_number |-> 0, is_white |-> FALSE, san |-> "", cp_gain |-> 0,
     loss_vs_best |-> 0, best_move |-> "", label |-> "",
     brilliant |-> PyBool(FALSE), is_only_move |-> FALSE,
     is_sacrifice |-> FALSE, is_surprise |-> FALSE,
     eval_before |-> 0, eval_after |-> 0, material_change |-> 0]

\* the caller's board after a call that pushes the move on the board itself
caller_board_pushed(b, m) == [b EXCEPT !.stackLen = @ + 1, !.turn = ~@]

\* the caller's board after evaluate_move(board, move), returned or raised:
\* the move is pushed on board_copy = board.copy() (lines 53, 65), each
\* legal move of _detect_only_move on a copy of its own (177-178), the move
\* of _calculate_material_change on board_after = board.copy() (288-289),
\* and the engine is given a copy; board.san() takes back what it pushes
caller_board(b, m) == b

evaluate_move_raises(b, m) ==
    \/ m.sanRaises
    \/ b.stackLen > 0 /\ b.rePushRaises
    \/ _detect_book_move(b, m) = "raise"

evaluate_move(b, m, e) ==
    LET move_san == m.san
        cp_gain == e.eval_after - e.eval_before
        loss_vs_best == loss_vs_best_of(e.shallow, move_san)
        is_only_move == _detect_only_move(e.quick, e.eval_before)
        is_sacrifice == _detect_sacrifice(b, e.eval_before, e.eval_after)
        is_surprise == _detect_surprise(e.shallow, e.deep, move_san)
        \* the call passes (loss, is_only_move, is_sacrifice, is_surprise,
        \* eval_before) positionally
        is_brilliant == _detect_brilliant(loss_vs_best, PyBool(is_only_move),
                            PyBool(is_sacrifice), PyBool(is_surprise),
                            PyInt(e.eval_before))
        book == _detect_book_move(b, m)
        label == get_move_label(loss_vs_best, is_brilliant, book = "true")
    IN IF evaluate_move_raises(b, m) THEN [raised |-> TRUE, a |-> NoAssessment]
       ELSE [raised |-> FALSE,
             a |-> [move_number |-> b.stackLen + 1,
                    is_white |-> b.turn,
                    san |-> move_san,
                    cp_gain |-> cp_gain,
                    loss_vs_best |-> loss_vs_best,
                    best_move |-> IF Len(e.shallow) > 0 THEN e.shallow[1].san
                                  ELSE move_san,
                    label |-> label,
                    brilliant |-> is_brilliant,
                    is_only_move |-> is_only_move,
                    is_sacrifice |-> is_sacrifice,
                    is_surprise |-> is_surprise,
                    eval_before |-> e.eval_before,
                    eval_after |-> e.eval_after,
                    material_change |-> m.delta]]


(***************************************************************************)
(* The environment: boards, moves and engine answers.                       *)
(***************************************************************************)
\* move notations (SAN) of the positions
Sans == {"e4", "Nf3"}
\* evaluations get_evaluation returns (10000 is the mate sentinel)
Evals == {-250, 0, 35, 10000}
\* evaluations of the entries of get_top_moves
ListEvals == {-250, 35, 300, 335, 10000}
\* depth-5 evaluations _detect_only_move asks for
QuickEvals == {-250, 35}
\* material change (pawn units, White-positive) of one push
MaterialDeltas == {-3, 0}
\* len(board.move_stack) of the boards evaluate_move is called with
StackLens == {0, 9, 14, 15}

\* chess.Board as the evaluator reads it: move_stack length, side to move
\* (TRUE = White), whether the placement is one of common_openings, and what
\* pushing board.peek() again does (python-chess asserts the move is
\* pseudo-legal in some builds and silently applies it in others)
Boards ==
    {[stackLen |-> 0, turn |-> t, fenCommon |-> f,
      rePushRaises |-> FALSE, rePushDelta |-> 0] : t \in BOOLEAN, f \in BOOLEAN}
    \cup
    {[stackLen |-> l, turn |-> t, fenCommon |-> f,
      rePushRaises |-> r, rePushDelta |-> IF r THEN 0 ELSE -9] :
        l \in StackLens \ {0}, t \in BOOLEAN, f \in BOOLEAN, r \in BOOLEAN}

\* game.board() of a game without a FEN header
StandardStart ==
    [stackLen |-> 0, turn |-> TRUE, fenCommon |-> TRUE,
     rePushRaises |-> FALSE, rePushDelta |-> 0]

\* chess.Move as the evaluator reads it: its SAN on the board, whether
\* board.san(move) raises (the move's from-square is empty on that board),
\* what move.piece_type gives (chess.Move has no such attribute in
\* python-chess: "missing"), the material change of pushing it
Moves ==
    {[san |-> s, sanRaises |-> FALSE, pieceAttr |-> p, delta |-> d] :
        s \in Sans, p \in {"missing", "develops", "other"}, d \in MaterialDeltas}

RaisingMove == [san |-> "", sanRaises |-> TRUE, pieceAttr |-> "missing", delta |-> 0]

\* a list get_top_moves can return for a position with side to move t: at
\* most MaxPV entries, distinct moves, best for the mover first (the
\* evaluations are from White's point of view)
IsRanked(s, t) ==
    /\ \A i, j \in 1..Len(s) : i # j => s[i].san # s[j].san
    /\ \A i \in 1..(Len(s) - 1) :
          IF t THEN s[i].eval >= s[i + 1].eval ELSE s[i].eval <= s[i + 1].eval

TopMoves(t, evals) ==
    {s \in UNION {[1..k -> [san : Sans, eval : evals]] : k \in 0..MaxPV} :
        IsRanked(s, t)}

TopMovesWhite == TopMoves(TRUE, ListEvals)
TopMovesBlack == TopMoves(FALSE, ListEvals)

\* the depth-5 evaluations of the legal moves, one per legal move
QuickLists == UNION {[1..k -> QuickEvals] : k \in 1..MaxLegal}

\* the engine's answers to one evaluate_move on a board with side to move t.
\* The shallow list is for the position before the move (mover t), the deep
\* list for the position after it (mover ~t); evaluate_move reads only the
\* notation of the deep entries.  The quick evaluations are asked for only
\* when eval_before is at or below the threshold (<<>> = not asked).
DeepEvals == {35}

AnswersOver(t, before, after, listEvals) ==
    {[eval_before |-> eb, shallow |-> sh, eval_after |-> ea, deep |-> dp, quick |-> q] :
        eb \in {x \in before : x <= only_move_eval_threshold}, ea \in after,
        sh \in TopMoves(t, listEvals),
        dp \in TopMoves(~t, DeepEvals),
        q \in QuickLists}
    \cup
    {[eval_before |-> eb, shallow |-> sh, eval_after |-> ea, deep |-> dp, quick |-> <<>>] :
        eb \in {x \in before : x > only_move_eval_threshold}, ea \in after,
        sh \in TopMoves(t, listEvals),
        dp \in TopMoves(~t, DeepEvals)}

AnswersWhite == AnswersOver(TRUE, Evals, Evals \ {0}, ListEvals)
AnswersBlack == AnswersOver(FALSE, Evals, Evals \ {0}, ListEvals)

(***************************************************************************)
(* ChessEngine (engine.py): get_evaluation and get_top_moves over           *)
(* analyze_position.  A request rq holds what one call meets: the position  *)
(* (pieces, side to move, whether the side to move is checkmated), whether  *)
(* _ensure_connected gets a working engine, whether _validate_board_state   *)
(* accepts the board, and what _safe_analyze gives (an error after its      *)
(* last attempt, or the engine's info list).                                *)
(*                                                                          *)
(* python-chess scores: an info's "score" is a PovScore relative to the     *)
(* side to move, Cp(v) or Mate(v); Mate(0) says the side to move is         *)
(* checkmated.  PovScore.white() negates it when Black is to move, and the  *)
(* negation of Mate(0) is MateGiven; Score.mate() is 0 for both.            *)
(***************************************************************************)
PieceTypes == {"PAWN", "KNIGHT", "BISHOP", "ROOK", "QUEEN", "KING"}
\* the pieces of a board, in the order of chess.SQUARES; color TRUE = White
Pieces == [type : PieceTypes, color : BOOLEAN]
PieceLists == UNION {[1..k -> Pieces] : k \in 0..MaxPieces}

piece_values ==
    [PAWN |-> 100, KNIGHT |-> 320, BISHOP |-> 330, ROOK |-> 500,
     QUEEN |-> 900, KING |-> 0]

\* the colour of the piece not looked at
RECURSIVE _calculate_material_evaluation_unsigned(_)
_calculate_material_evaluation_unsigned(pieces) ==
    IF pieces = <<>> THEN 0
    ELSE piece_values[Head(pieces).type]
         + _calculate_material_evaluation_unsigned(Tail(pieces))

RECURSIVE _calculate_material_evaluation(_)
_calculate_material_evaluation(pieces) ==
    IF pieces = <<>> THEN 0
    ELSE (IF Head(pieces).color THEN piece_values[Head(pieces).type]
          ELSE -piece_values[Head(pieces).type])
         + _calculate_material_evaluation(Tail(pieces))

\* centipawn values of the engine's scores
CpValues == {-50, 35}

\* the relative scores an engine gives for a position
RelScores(checkmated) ==
    IF checkmated THEN {[kind |-> "mate", v |-> 0]}
    ELSE {[kind |-> "cp", v |-> c] : c \in CpValues}
         \cup {[kind |-> "mate", v |-> k] : k \in (-MaxMate..MaxMate) \ {0}}

\* PovScore.white()
white(score, turn) ==
    IF turn THEN score
    ELSE IF score.kind = "cp" THEN [kind |-> "cp", v |-> -score.v]
    ELSE IF score.v = 0 THEN [kind |-> "mategiven", v |-> 0]
    ELSE [kind |-> "mate", v |-> -score.v]

\* Score.is_mate() and Score.mate()
is_mate(score) == score.kind \in {"mate", "mategiven"}
mate(score) == score.v

\* the "score" branch of get_evaluation
get_evaluation_score(score, turn) ==
    IF is_mate(score)
    THEN IF mate(white(score, turn)) > 0 THEN MateSentinel ELSE -MateSentinel
    ELSE white(score, turn).v

\* the "score" branch of get_top_moves
get_top_moves_score(score, turn) ==
    IF is_mate(score)
    THEN IF is_mate(white(score, turn))
         THEN IF mate(white(score, turn)) > 0 THEN MateSentinel ELSE -MateSentinel
         ELSE white(score, turn).v
    ELSE white(score, turn).v

\* the info dicts of an analysis: with or without "score"; pv is "none" (no
\* "pv" key or an empty pv), "illegal" (pv[0] not legal on the board, or its
\* conversion raises) or the SAN of pv[0].  A checkmated position has no pv.
Infos(checkmated) ==
    LET pvs == IF checkmated THEN {"none"} ELSE {"none", "illegal"} \cup Sans
    IN {[hasScore |-> FALSE, score |-> [kind |-> "cp", v |-> 0], pv |-> p] : p \in pvs}
       \cup {[hasScore |-> TRUE, score |-> s, pv |-> p] :
                 s \in RelScores(checkmated), p \in pvs}

NoRequest ==
    [op |-> "", pieces |-> <<>>, turn |-> TRUE, checkmated |-> FALSE, count |-> 1,
     connected |-> TRUE, valid |-> TRUE, error |-> FALSE, infos |-> <<>>]

\* analyze_position(board, depth, multipv): raises when _ensure_connected
\* cannot reconnect, [] for an invalid board or a failed analysis, else the
\* engine's list, wrapped in a list when multipv == 1
analyze_position(rq, multipv) ==
    IF ~rq.connected THEN [raised |-> TRUE, nested |-> FALSE, infos |-> <<>>]
    ELSE IF ~rq.valid \/ rq.error THEN [raised |-> FALSE, nested |-> FALSE, infos |-> <<>>]
    ELSE [raised |-> FALSE, nested |-> (multipv = 1), infos |-> rq.infos]

get_evaluation(rq) ==
    LET result == analyze_position(rq, 1)
        material == _calculate_material_evaluation(rq.pieces)
    IN IF result.raised THEN material
       ELSE IF result.infos = <<>> THEN material
       ELSE IF result.infos[1].hasScore
            THEN get_evaluation_score(result.infos[1].score, rq.turn)
            ELSE material

get_top_moves(rq) ==
    LET results == analyze_position(rq, rq.count)
        kept == SelectSeq(results.infos,
                    LAMBDA i : i.hasScore /\ i.pv \notin {"none", "illegal"})
    IN IF results.raised THEN <<>>
       ELSE [k \in 1..Len(kept) |->
                [san |-> kept[k].pv,
                 eval |-> get_top_moves_score(kept[k].score, rq.turn)]]

(***************************************************************************)
(* SpecLabel: get_move_label on drawn arguments, for two losses a <= b      *)
(* with the same flags.                                                     *)
(***************************************************************************)
BrilliantArgs == {PyBool(FALSE), PyBool(TRUE), PyInt(35)}

\* no engine request answered yet
NoAnswers ==
    [eval_before |-> 0, shallow |-> <<>>, eval_after |-> 0, deep |-> <<>>, quick |-> <<>>]

\* no evaluate_move call made yet
NoCall == [board |-> StandardStart, move |-> RaisingMove, answers |-> NoAnswers]

GameIdle ==
    /\ pc = "off" /\ n = 0 /\ idx = 0 /\ board = StandardStart
    /\ move_number = 0 /\ assessments = <<>> /\ mainline = <<>>
    /\ assessed_ply = <<>> /\ prior = FALSE /\ last_in = NoCall

\* the fields MoveEvaluator.__init__ sets besides the engine;
\* surprise_threshold (0.3) is kept in tenths
MoveEvaluatorFields ==
    [sacrifice_material_threshold |-> 300,
     only_move_eval_threshold |-> only_move_eval_threshold,
     brilliant_eval_threshold |-> brilliant_eval_threshold,
     surprise_threshold |-> 3]

MoveIdle ==
    /\ mv_pc = "off" /\ mv_board = StandardStart /\ mv_move = RaisingMove
    /\ mv_self = MoveEvaluatorFields
    /\ mv_out = [raised |-> FALSE, a |-> NoAssessment]
    /\ mv_eng = NoAnswers

LabelIdle ==
    /\ lb_pc = "off"
    /\ lb_in = [a |-> 0, b |-> 0, is_brilliant |-> PyBool(FALSE), is_book |-> FALSE]
    /\ lb_out = [label_a |-> "", label_b |-> ""]

OnlyIdle ==
    /\ om_pc = "off"
    /\ om_in = [eval_before |-> 0, quick |-> <<>>]
    /\ om_out = [result |-> FALSE, requests |-> 0]

EngineIdle ==
    /\ en_pc = "off"
    /\ en_in = NoRequest
    /\ en_out = [raised |-> FALSE, eval |-> 0, top_moves |-> <<>>]

\* a GameAnalysis whose moves list is empty: __post_init__ computes nothing
NoStats ==
    [total_moves |-> 0, white_stats |-> "None", black_stats |-> "None",
     game_accuracy |-> {0}, overall_quality |-> ""]

\* no request received yet
NoApiRequest == [handler |-> "", games |-> 0]

BookIdle ==
    /\ bk_pc = "off"
    /\ bk_in = [board |-> StandardStart, move |-> RaisingMove]
    /\ bk_out = "false"

MaterialIdle ==
    /\ mc_pc = "off"
    /\ mc_in = [pieces |-> <<>>, turn |-> TRUE, captured |-> 0, promoted |-> 0,
                promotion |-> "QUEEN"]
    /\ mc_out = 0

StatsIdle ==
    /\ st_pc = "off"
    /\ st_in = <<>>
    /\ st_out = NoStats

\* _safe_analyze has neither returned nor raised
NoOutcome == [kind |-> "none", error |-> "", result |-> <<>>]

SafeIdle ==
    /\ sa_pc = "off" /\ sa_in = [multipv |-> 1] /\ sa_attempt = 0
    /\ sa_log = <<>> /\ sa_out = NoOutcome

ApiIdle ==
    /\ ap_pc = "off"
    /\ ap_in = NoApiRequest
    /\ ap_engine = "unbound"
    /\ ap_log = <<>>
    /\ ap_out = "none"

RestIdle == BookIdle /\ MaterialIdle /\ StatsIdle /\ SafeIdle /\ ApiIdle

InitLabel ==
    /\ GameIdle /\ MoveIdle /\ OnlyIdle /\ EngineIdle /\ RestIdle
    /\ lb_pc = "call"
    /\ lb_in \in {[a |-> a, b |-> b, is_brilliant |-> br, is_book |-> bk] :
                    a \in 0..MaxLossIn, b \in 0..MaxLossIn,
                    br \in BrilliantArgs, bk \in BOOLEAN}
    /\ lb_in.a <= lb_in.b
    /\ lb_out = [label_a |-> "", label_b |-> ""]

LabelCall ==
    /\ lb_pc = "call"
    /\ lb_out' = [label_a |-> get_move_label(lb_in.a, lb_in.is_brilliant, lb_in.is_book),
                  label_b |-> get_move_label(lb_in.b, lb_in.is_brilliant, lb_in.is_book)]
    /\ lb_pc' = "returned"
    /\ UNCHANGED <<lb_in, gameVars, moveVars, onlyVars, engineVars, restVars>>

NextLabel == LabelCall

SpecLabel == InitLabel /\ [][NextLabel]_vars

(***************************************************************************)
(* SpecMove: one call of evaluate_move(board, move).                        *)
(***************************************************************************)
InitMove ==
    /\ GameIdle /\ LabelIdle /\ OnlyIdle /\ EngineIdle /\ RestIdle
    /\ mv_pc = "call"
    /\ mv_self = MoveEvaluatorFields
    /\ mv_board \in Boards
    /\ mv_move \in Moves
    /\ mv_out = [raised |-> FALSE, a |-> NoAssessment]
    /\ mv_eng = NoAnswers

EvaluateMoveCall ==
    /\ mv_pc = "call"
    /\ \E e \in (IF mv_board.turn THEN AnswersWhite ELSE AnswersBlack) :
          /\ mv_out' = evaluate_move(mv_board, mv_move, e)
          /\ mv_eng' = e
    /\ mv_pc' = IF mv_out'.raised THEN "raised" ELSE "returned"
    /\ mv_board' = caller_board(mv_board, mv_move)
    /\ UNCHANGED <<mv_move, mv_self, gameVars, labelVars, onlyVars, engineVars, restVars>>

NextMove == EvaluateMoveCall

SpecMove == InitMove /\ [][NextMove]_vars


(***************************************************************************)
(* Spec: evaluate_game(game).  Each iteration of "for node in               *)
(* game.mainline()" consumes one node, until the mainline is exhausted (at  *)
(* most MaxPlies nodes; n is their number, known at the return).  board is  *)
(* the local board = game.board(): no statement of the loop pushes a move   *)
(* on it.                                                                   *)
(***************************************************************************)
\* the engine's answers drawn while a game is evaluated
GameEvals == {0, 35}
GameEvalsAfter == {35}
GameListEvals == {35}

GameAnswersWhite == AnswersOver(TRUE, GameEvals, GameEvalsAfter, GameListEvals)
GameAnswersBlack == AnswersOver(FALSE, GameEvals, GameEvalsAfter, GameListEvals)

\* the fields of a MoveAssessment the game-level state keeps: the ones
\* evaluate_game writes and the ones the aggregation reads
Kept(a) ==
    [move_number |-> a.move_number, is_white |-> a.is_white,
     label |-> a.label, brilliant |-> a.brilliant,
     loss_vs_best |-> a.loss_vs_best, is_only_move |-> a.is_only_move,
     is_sacrifice |-> a.is_sacrifice, is_surprise |-> a.is_surprise]

\* game.board(): the start position of a game, nothing on its move stack
StartBoards ==
    {[stackLen |-> 0, turn |-> t, fenCommon |-> f,
      rePushRaises |-> FALSE, rePushDelta |-> 0] : t \in BOOLEAN, f \in BOOLEAN}

\* move_number taken over from the call before
initial_move_number_carried(k) == IF k = 0 THEN 1 ELSE k

\* "move_number = 1" at the start of evaluate_game, whatever a call before
\* left (k)
initial_move_number(k) == 1

Init ==
    /\ MoveIdle /\ LabelIdle /\ OnlyIdle /\ EngineIdle /\ RestIdle
    /\ pc = "loop"
    /\ n = 0
    /\ idx = 0
    /\ board \in StartBoards
    /\ move_number = initial_move_number(0)
    /\ assessments = <<>>
    /\ mainline = <<>>
    /\ assessed_ply = <<>>
    /\ prior = FALSE
    /\ last_in = NoCall

\* "if node.move:" is false for the null move: the node is skipped
SkipNullMove ==
    /\ pc = "loop" /\ idx < MaxPlies
    /\ idx' = idx + 1
    /\ mainline' = Append(mainline, TRUE)
    /\ UNCHANGED <<pc, n, board, move_number, assessments, assessed_ply, prior, last_in>>
    /\ UNCHANGED <<moveVars, labelVars, onlyVars, engineVars, restVars>>

\* the moves a node can hold: the first node's move is legal on board, a
\* later node's move may start from a square that is empty on board
NodeMoves(i) == IF i = 0 THEN Moves ELSE Moves \cup {RaisingMove}

\* move_number left as it was
next_move_number_stuck(k) == k

\* the value move_number has after an assessment was appended
next_move_number(k) == k + 1

\* one iteration for a node with a move, when evaluate_move returns; moves
\* and answers are what the node's move and the engine's answers are drawn
\* from, recorded says whether last_in keeps them
EvaluateNodeOver(moves, answers, recorded) ==
    /\ pc = "loop" /\ idx < MaxPlies
    /\ \E m \in moves :
       \E e \in answers :
          LET r == evaluate_move(board, m, e) IN
          /\ ~r.raised
          /\ assessments' = Append(assessments,
                 Kept([r.a EXCEPT !.move_number = move_number,
                                  !.is_white = board.turn]))
          /\ board' = caller_board(board, m)
          /\ last_in' = IF recorded THEN [board |-> board, move |-> m, answers |-> e]
                         ELSE NoCall
    /\ move_number' = next_move_number(move_number)
    /\ idx' = idx + 1
    /\ mainline' = Append(mainline, FALSE)
    /\ assessed_ply' = Append(assessed_ply, idx + 1)
    /\ UNCHANGED <<pc, n, prior>>
    /\ UNCHANGED <<moveVars, labelVars, onlyVars, engineVars, restVars>>

EvaluateNode ==
    EvaluateNodeOver(NodeMoves(idx),
                     IF board.turn THEN GameAnswersWhite ELSE GameAnswersBlack,
                     FALSE)

\* evaluate_move raises: evaluate_game has no handler, the exception leaves it
EvaluateNodeRaises ==
    /\ pc = "loop" /\ idx < MaxPlies
    /\ \E m \in NodeMoves(idx) : evaluate_move_raises(board, m)
    /\ pc' = "raised"
    /\ mainline' = Append(mainline, FALSE)
    /\ UNCHANGED <<n, idx, board, move_number, assessments, assessed_ply, prior, last_in>>
    /\ UNCHANGED <<moveVars, labelVars, onlyVars, engineVars, restVars>>

\* the mainline is exhausted after n = idx nodes
ReturnAssessments ==
    /\ pc = "loop"
    /\ n' = idx
    /\ pc' = "returned"
    /\ UNCHANGED <<idx, board, move_number, assessments, mainline, assessed_ply,
                   prior, last_in>>
    /\ UNCHANGED <<moveVars, labelVars, onlyVars, engineVars, restVars>>

\* analyze_batch_games calls evaluate_game for the next game on the same
\* MoveEvaluator: the method's locals are created anew, the instance holds
\* nothing of the game before
NextGame ==
    /\ pc = "returned" /\ ~prior
    /\ prior' = TRUE
    /\ pc' = "loop"
    /\ n' = 0
    /\ idx' = 0
    /\ board' \in StartBoards
    /\ move_number' = initial_move_number(move_number)
    /\ assessments' = <<>>
    /\ mainline' = <<>>
    /\ assessed_ply' = <<>>
    /\ last_in' = NoCall
    /\ UNCHANGED <<moveVars, labelVars, onlyVars, engineVars, restVars>>

Next == SkipNullMove \/ EvaluateNode \/ EvaluateNodeRaises \/ ReturnAssessments

Spec == Init /\ [][Next]_vars

(***************************************************************************)
(* SpecBatch: the loop of analyze_batch_games, evaluate_game for one game   *)
(* and then for a second one on the same MoveEvaluator, with the inputs of  *)
(* every evaluate_move call kept in last_in.                                *)
(***************************************************************************)
BatchMoves ==
    {[san |-> s, sanRaises |-> FALSE, pieceAttr |-> "other", delta |-> 0] : s \in Sans}

\* the engine's answers in a batch: evaluations 0 and 35, lists empty or
\* with one entry
BatchAnswers ==
    {[eval_before |-> eb, shallow |-> sh, eval_after |-> 35, deep |-> dp, quick |-> <<>>] :
        eb \in GameEvals,
        sh \in {<<>>, <<[san |-> "e4", eval |-> 35]>>},
        dp \in {<<>>, <<[san |-> "Nf3", eval |-> 35]>>}}

BatchEvaluateNode == EvaluateNodeOver(BatchMoves, BatchAnswers, TRUE)

NextBatch ==
    SkipNullMove \/ BatchEvaluateNode \/ EvaluateNodeRaises \/ ReturnAssessments
    \/ NextGame

SpecBatch == Init /\ [][NextBatch]_vars


(***************************************************************************)
(* SpecOnly: one call of _detect_only_move(board, eval_before).  The board  *)
(* is what the method reads of it: its legal moves, each with the depth-5   *)
(* evaluation the engine gives for the position after it (om_in.quick, one  *)
(* entry per legal move; no entry for a position without legal moves).      *)
(***************************************************************************)
\* eval_before of the calls, on both sides of the threshold
OnlyEvalsBefore == {-300, -250, -201, -200, -199, 0, 35}
\* depth-5 evaluations, on both sides of the threshold
OnlyQuickEvals == {-250, -200, -199, 35}

InitOnly ==
    /\ GameIdle /\ MoveIdle /\ LabelIdle /\ EngineIdle /\ RestIdle
    /\ om_pc = "call"
    /\ om_in \in [eval_before : OnlyEvalsBefore,
                  quick : UNION {[1..k -> OnlyQuickEvals] : k \in 0..MaxLegal}]
    /\ om_out = [result |-> FALSE, requests |-> 0]

OnlyMoveCall ==
    /\ om_pc = "call"
    /\ om_out' = [result |-> _detect_only_move(om_in.quick, om_in.eval_before),
                  requests |-> only_move_requests(om_in.quick, om_in.eval_before)]
    /\ om_pc' = "returned"
    /\ UNCHANGED <<om_in, gameVars, moveVars, labelVars, engineVars, restVars>>

NextOnly == OnlyMoveCall

SpecOnly == InitOnly /\ [][NextOnly]_vars

(***************************************************************************)
(* SpecEngine: one call of ChessEngine.get_evaluation(board) or of          *)
(* ChessEngine.get_top_moves(board, depth, count).  get_evaluation asks     *)
(* for one line (multipv=1) and reads the pieces of the board in its        *)
(* fallback; get_top_moves asks for count lines and gets at most count      *)
(* infos.                                                                   *)
(***************************************************************************)
\* a request: the operation, the board, the lines asked for, and what the
\* call meets
Request(op, ps, t, cm, count, c, v, e, is) ==
    [op |-> op, pieces |-> ps, turn |-> t, checkmated |-> cm, count |-> count,
     connected |-> c, valid |-> v, error |-> e, infos |-> is]

\* the info lists an engine gives when asked for at most longest lines
InfoLists(cm, longest) == UNION {[1..k -> Infos(cm)] : k \in 1..longest}

InitEngine ==
    /\ GameIdle /\ MoveIdle /\ LabelIdle /\ OnlyIdle /\ RestIdle
    /\ en_pc = "call"
    /\ en_out = [raised |-> FALSE, eval |-> 0, top_moves |-> <<>>]
    /\ \E t \in BOOLEAN, c \in BOOLEAN, v \in BOOLEAN, e \in BOOLEAN :
          \/ \E cm \in BOOLEAN : \E ps \in PieceLists, is \in InfoLists(cm, 1) :
                en_in = Request("get_evaluation", ps, t, cm, 1, c, v, e, is)
          \/ \E cm \in BOOLEAN : \E is \in InfoLists(cm, 1) :
                en_in = Request("get_top_moves", <<>>, t, cm, 1, c, v, e, is)
          \/ \E is \in InfoLists(FALSE, MaxPV) :
                en_in = Request("get_top_moves", <<>>, t, FALSE, MaxPV, c, v, e, is)

\* every statement of get_evaluation is inside "try: ... except Exception",
\* and the handler returns the material evaluation
GetEvaluationCall ==
    /\ en_pc = "call" /\ en_in.op = "get_evaluation"
    /\ en_out' = [raised |-> FALSE, eval |-> get_evaluation(en_in), top_moves |-> <<>>]
    /\ en_pc' = "returned"
    /\ UNCHANGED <<en_in, gameVars, moveVars, labelVars, onlyVars, restVars>>

\* every statement of get_top_moves is inside "try: ... except Exception",
\* and the handler returns []
GetTopMovesCall ==
    /\ en_pc = "call" /\ en_in.op = "get_top_moves"
    /\ en_out' = [raised |-> FALSE, eval |-> 0, top_moves |-> get_top_moves(en_in)]
    /\ en_pc' = "returned"
    /\ UNCHANGED <<en_in, gameVars, moveVars, labelVars, onlyVars, restVars>>

NextEngine == GetEvaluationCall \/ GetTopMovesCall

SpecEngine == InitEngine /\ [][NextEngine]_vars

(***************************************************************************)
(* SpecBook: one call of _detect_book_move(board, move) on a board with any *)
(* number of moves on its stack and a legal move.                           *)
(***************************************************************************)
\* len(board.move_stack) of the boards, on both sides of 10, 15 and 16
BookStackLens == {0, 9, 10, 14, 15, 16, 17, 40}

BookBoards ==
    {[stackLen |-> l, turn |-> t, fenCommon |-> f,
      rePushRaises |-> FALSE, rePushDelta |-> 0] :
        l \in BookStackLens, t \in BOOLEAN, f \in BOOLEAN}

InitBook ==
    /\ GameIdle /\ MoveIdle /\ LabelIdle /\ OnlyIdle /\ EngineIdle
    /\ MaterialIdle /\ StatsIdle /\ SafeIdle /\ ApiIdle
    /\ bk_pc = "call"
    /\ bk_in \in [board : BookBoards, move : Moves]
    /\ bk_out = "false"

DetectBookCall ==
    /\ bk_pc = "call"
    /\ bk_out' = _detect_book_move(bk_in.board, bk_in.move)
    /\ bk_pc' = IF bk_out' = "raise" THEN "raised" ELSE "returned"
    /\ UNCHANGED <<bk_in, gameVars, moveVars, labelVars, onlyVars, engineVars>>
    /\ UNCHANGED <<materialVars, statsVars, safeVars, apiVars>>

NextBook == DetectBookCall

SpecBook == InitBook /\ [][NextBook]_vars

(***************************************************************************)
(* GameAnalysis.__post_init__: the statistics of a list of assessments.     *)
(* Percentages and averages are kept in tenths (987 is 98.7).               *)
(***************************************************************************)
\* longest list of assessments handed to GameAnalysis
MaxStatMoves == 2

\* loss_vs_best of the assessments
StatLosses == {-30, 50}

StatAssessments ==
    [label : MoveLabel, brilliant : {PyBool(TRUE), PyBool(FALSE)},
     is_white : BOOLEAN, loss_vs_best : StatLosses]

\* round(num / den, 1) in tenths, for num >= 0 and den > 0; a tie goes to
\* the even neighbour (the ties met here, quarters, are exact in binary)
round1(num, den) ==
    LET q == (10 * num) \div den
        r == (10 * num) % den
    IN IF 2 * r < den THEN q
       ELSE IF 2 * r > den THEN q + 1
       ELSE IF q % 2 = 0 THEN q ELSE q + 1

\* the penalty table with the Blunder penalty of an earlier revision
penalty_blunder_50(label) ==
    CASE label = "Excellent" -> 2
      [] label = "Good" -> 5
      [] label = "Inaccuracy" -> 10
      [] label = "Miss" -> 15
      [] label = "Mistake" -> 20
      [] label = "Blunder" -> 50
      [] OTHER -> 0

penalty(label) ==
    CASE label = "Brilliant" -> 0
      [] label = "Great Move" -> 0
      [] label = "Best Move" -> 0
      [] label = "Excellent" -> 2
      [] label = "Good" -> 5
      [] label = "Book" -> 0
      [] label = "Inaccuracy" -> 10
      [] label = "Miss" -> 15
      [] label = "Mistake" -> 20
      [] label = "Blunder" -> 40
      [] OTHER -> 0

RECURSIVE total_penalty(_)
total_penalty(moves) ==
    IF moves = <<>> THEN 0
    ELSE penalty(Head(moves).label) + total_penalty(Tail(moves))

RECURSIVE total_cp_loss(_)
total_cp_loss(moves) ==
    IF moves = <<>> THEN 0
    ELSE (IF Head(moves).loss_vs_best < 0 THEN -Head(moves).loss_vs_best
          ELSE Head(moves).loss_vs_best) + total_cp_loss(Tail(moves))

_create_player_stats(moves) ==
    LET count(l) == Len(SelectSeq(moves, LAMBDA m : m.label = l))
        flagged == Len(SelectSeq(moves, LAMBDA m : Truthy(m.brilliant)))
        total_moves == Len(moves)
    IN [total_moves |-> total_moves,
        brilliant_moves |-> count("Brilliant") + flagged,
        great_moves |-> count("Great Move"),
        best_moves |-> count("Best Move"),
        excellent_moves |-> count("Excellent"),
        good_moves |-> count("Good"),
        book_moves |-> count("Book"),
        inaccuracy_moves |-> count("Inaccuracy"),
        miss_moves |-> count("Miss"),
        mistake_moves |-> count("Mistake"),
        blunder_moves |-> count("Blunder"),
        accuracy_percentage |->
            IF total_moves > 0 THEN round1(100 * total_moves - total_penalty(moves), total_moves) ELSE 0,
        blunder_rate |->
            IF total_moves > 0 THEN round1(100 * count("Blunder"), total_moves) ELSE 0,
        average_cp_loss |->
            IF total_moves > 0 THEN round1(total_cp_loss(moves), total_moves) ELSE 0,
        total_cp_loss |-> total_cp_loss(moves)]

\* (white_stats, black_stats) of _calculate_player_stats
_calculate_player_stats(moves) ==
    [white_stats |-> _create_player_stats(SelectSeq(moves, LAMBDA m : m.is_white)),
     black_stats |-> _create_player_stats(SelectSeq(moves, LAMBDA m : ~m.is_white))]

\* (game_accuracy, overall_quality) of _calculate_game_quality; avg_accuracy
\* is (w + b) / 2, compared here doubled.  game_accuracy is the set of values
\* round(avg_accuracy, 1) can take: when w + b is odd the average lies half
\* way between two tenths and its binary representation decides.
_calculate_game_quality(white_stats, black_stats) ==
    LET sum == white_stats.accuracy_percentage + black_stats.accuracy_percentage
    IN [game_accuracy |->
            IF sum % 2 = 0 THEN {sum \div 2} ELSE {sum \div 2, sum \div 2 + 1},
        overall_quality |->
            IF sum >= 1600 THEN "Excellent"
            ELSE IF sum >= 1200 THEN "Good"
            ELSE IF sum >= 800 THEN "Fair"
            ELSE "Poor"]

GameAnalysis(moves) ==
    IF moves = <<>> THEN NoStats
    ELSE LET s == _calculate_player_stats(moves)
             q == _calculate_game_quality(s.white_stats, s.black_stats)
         IN [total_moves |-> Len(moves),
             white_stats |-> s.white_stats, black_stats |-> s.black_stats,
             game_accuracy |-> q.game_accuracy,
             overall_quality |-> q.overall_quality]

(***************************************************************************)
(* SpecStats: GameAnalysis constructed from any list of assessments.        *)
(***************************************************************************)
InitStats ==
    /\ GameIdle /\ MoveIdle /\ LabelIdle /\ OnlyIdle /\ EngineIdle
    /\ BookIdle /\ MaterialIdle /\ SafeIdle /\ ApiIdle
    /\ st_pc = "new"
    /\ \E k \in 0..MaxStatMoves : st_in \in [1..k -> StatAssessments]
    /\ st_out = NoStats

PostInit ==
    /\ st_pc = "new"
    /\ st_out' = GameAnalysis(st_in)
    /\ st_pc' = "done"
    /\ UNCHANGED <<st_in, gameVars, moveVars, labelVars, onlyVars, engineVars>>
    /\ UNCHANGED <<bookVars, materialVars, safeVars, apiVars>>

NextStats == PostInit

SpecStats == InitStats /\ [][NextStats]_vars

(***************************************************************************)
(* _calculate_material_change(board, move).  The board is the list of its   *)
(* pieces (the sum does not depend on their squares); a move names the      *)
(* piece it captures and the pawn it promotes, 0 for none.                  *)
(***************************************************************************)
\* most pieces on a board of the material calls
MaxBoardPieces == 3

MaterialBoards == UNION {[1..k -> Pieces] : k \in 0..MaxBoardPieces}

\* the legal moves of the side to move: quiet moves (castling included),
\* captures (en passant included) of an opposing piece other than the
\* king, promotions of an own pawn, and captures with promotion
MaterialMoves(pieces, turn) ==
    LET captures == {0} \cup {i \in 1..Len(pieces) :
                        pieces[i].color # turn /\ pieces[i].type # "KING"}
        pawns == {i \in 1..Len(pieces) :
                        pieces[i].color = turn /\ pieces[i].type = "PAWN"}
    IN {[pieces |-> pieces, turn |-> turn, captured |-> c, promoted |-> 0,
         promotion |-> "QUEEN"] : c \in captures}
       \cup {[pieces |-> pieces, turn |-> turn, captured |-> c, promoted |-> p,
              promotion |-> t] :
                c \in captures, p \in pawns,
                t \in {"QUEEN", "ROOK", "BISHOP", "KNIGHT"}}

\* the pieces of board_after: board.copy() with the move pushed
board_after(in) ==
    LET pieces == in.pieces
        promoted == [i \in 1..Len(pieces) |->
                        IF i = in.promoted
                        THEN [pieces[i] EXCEPT !.type = in.promotion]
                        ELSE pieces[i]]
    IN IF in.captured = 0 THEN promoted
       ELSE [i \in 1..(Len(pieces) - 1) |->
                IF i < in.captured THEN promoted[i] ELSE promoted[i + 1]]

material_piece_values ==
    [PAWN |-> 1, KNIGHT |-> 3, BISHOP |-> 3, ROOK |-> 5, QUEEN |-> 9, KING |-> 0]

\* the colour of the piece not looked at
RECURSIVE _calculate_material_value_unsigned(_)
_calculate_material_value_unsigned(pieces) ==
    IF pieces = <<>> THEN 0
    ELSE material_piece_values[Head(pieces).type]
         + _calculate_material_value_unsigned(Tail(pieces))

RECURSIVE _calculate_material_value(_)
_calculate_material_value(pieces) ==
    IF pieces = <<>> THEN 0
    ELSE (IF Head(pieces).color THEN material_piece_values[Head(pieces).type]
          ELSE -material_piece_values[Head(pieces).type])
         + _calculate_material_value(Tail(pieces))

_calculate_material_change(in) ==
    LET material_before == _calculate_material_value(in.pieces)
        material_after == _calculate_material_value(board_after(in))
    IN material_after - material_before

(***************************************************************************)
(* SpecMaterial: one call of _calculate_material_change.                    *)
(***************************************************************************)
InitMaterial ==
    /\ GameIdle /\ MoveIdle /\ LabelIdle /\ OnlyIdle /\ EngineIdle
    /\ BookIdle /\ StatsIdle /\ SafeIdle /\ ApiIdle
    /\ mc_pc = "call"
    /\ \E pieces \in MaterialBoards : \E turn \in BOOLEAN :
          mc_in \in MaterialMoves(pieces, turn)
    /\ mc_out = 0

MaterialChangeCall ==
    /\ mc_pc = "call"
    /\ mc_out' = _calculate_material_change(mc_in)
    /\ mc_pc' = "returned"
    /\ UNCHANGED <<mc_in, gameVars, moveVars, labelVars, onlyVars, engineVars>>
    /\ UNCHANGED <<bookVars, statsVars, safeVars, apiVars>>

NextMaterial == MaterialChangeCall

SpecMaterial == InitMaterial /\ [][NextMaterial]_vars

(***************************************************************************)
(* SpecSafe: one call of ChessEngine._safe_analyze, a step per attempt and  *)
(* per exception handler.  sa_attempt is the loop variable, sa_log the      *)
(* calls made on the engine so far: "analyse" with the exception it raised  *)
(* ("" for none) and its result, "reset" with the error of reset_engine().  *)
(***************************************************************************)
max_retries == 3

\* what engine.analyse raises: a chess.engine.EngineError or another
\* Exception (a dead process, a timeout, self.engine being None)
AnalyseErrors == {"EngineError", "Exception"}

\* the handlers' test with the last attempt retried as well
may_retry_last_too(attempt) == attempt < max_retries

\* "attempt < max_retries - 1" of both handlers
may_retry(attempt) == attempt < max_retries - 1

InitSafe ==
    /\ GameIdle /\ MoveIdle /\ LabelIdle /\ OnlyIdle /\ EngineIdle
    /\ BookIdle /\ MaterialIdle /\ StatsIdle /\ ApiIdle
    /\ sa_pc = "try"
    /\ sa_in \in [multipv : 1..MaxPV]
    /\ sa_attempt = 0
    /\ sa_log = <<>>
    /\ sa_out = NoOutcome

\* "return self.engine.analyse(...)" of attempt sa_attempt
SafeAnalyseReturns ==
    /\ sa_pc = "try" /\ sa_attempt \in 0..(max_retries - 1)
    /\ \E result \in InfoLists(FALSE, sa_in.multipv) :
          /\ sa_log' = Append(sa_log, [call |-> "analyse", error |-> "", result |-> result])
          /\ sa_out' = [kind |-> "result", error |-> "", result |-> result]
    /\ sa_pc' = "returned"
    /\ UNCHANGED <<sa_in, sa_attempt>>
    /\ UNCHANGED <<gameVars, moveVars, labelVars, onlyVars, engineVars>>
    /\ UNCHANGED <<bookVars, materialVars, statsVars, apiVars>>

\* engine.analyse raises and one of the two handlers is entered
SafeAnalyseRaises ==
    /\ sa_pc = "try" /\ sa_attempt \in 0..(max_retries - 1)
    /\ \E e \in AnalyseErrors :
          /\ sa_log' = Append(sa_log, [call |-> "analyse", error |-> e, result |-> <<>>])
          /\ sa_out' = [kind |-> "caught", error |-> e, result |-> <<>>]
    /\ sa_pc' = "except"
    /\ UNCHANGED <<sa_in, sa_attempt>>
    /\ UNCHANGED <<gameVars, moveVars, labelVars, onlyVars, engineVars>>
    /\ UNCHANGED <<bookVars, materialVars, statsVars, apiVars>>

\* "self.reset_engine(); continue": _connect either reconnects or raises
\* RuntimeError, which leaves _safe_analyze from inside the handler
SafeResetEngine ==
    /\ sa_pc = "except" /\ may_retry(sa_attempt)
    /\ \E connected \in BOOLEAN :
          IF connected
          THEN /\ sa_log' = Append(sa_log, [call |-> "reset", error |-> "", result |-> <<>>])
               /\ sa_attempt' = sa_attempt + 1
               /\ sa_pc' = "try"
               /\ sa_out' = NoOutcome
          ELSE /\ sa_log' = Append(sa_log, [call |-> "reset", error |-> "RuntimeError", result |-> <<>>])
               /\ sa_attempt' = sa_attempt
               /\ sa_pc' = "raised"
               /\ sa_out' = [kind |-> "exception", error |-> "RuntimeError", result |-> <<>>]
    /\ UNCHANGED sa_in
    /\ UNCHANGED <<gameVars, moveVars, labelVars, onlyVars, engineVars>>
    /\ UNCHANGED <<bookVars, materialVars, statsVars, apiVars>>

\* "raise" of the final attempt
SafeReraise ==
    /\ sa_pc = "except" /\ ~may_retry(sa_attempt)
    /\ sa_out' = [kind |-> "exception", error |-> sa_out.error, result |-> <<>>]
    /\ sa_pc' = "raised"
    /\ UNCHANGED <<sa_in, sa_attempt, sa_log>>
    /\ UNCHANGED <<gameVars, moveVars, labelVars, onlyVars, engineVars>>
    /\ UNCHANGED <<bookVars, materialVars, statsVars, apiVars>>

NextSafe ==
    SafeAnalyseReturns \/ SafeAnalyseRaises \/ SafeResetEngine \/ SafeReraise

SpecSafe == InitSafe /\ [][NextSafe]_vars

(***************************************************************************)
(* SpecApi: one request to /analyze, /analyze-file or /analyze-batch, a     *)
(* step per statement that can raise.  ap_in.games is the number of games   *)
(* read from the PGN; ap_engine is "unbound" while no ChessEngine exists,   *)
(* else the engine's handle self.engine: "connected" or "None"; ap_log      *)
(* lists the calls made; ap_out is "none", then "success" or "raising"      *)
(* while the finally clause runs, and the response kind at the end.         *)
(***************************************************************************)
\* most games read from one PGN
MaxGames == 2

ApiRequests ==
    {[handler |-> h, games |-> g] : h \in {"analyze", "analyze-file"}, g \in 0..1}
    \cup {[handler |-> "analyze-batch", games |-> g] : g \in 0..MaxGames}

Event(ev, quit) == [ev |-> ev, quit |-> quit]

\* where a raise inside the inner try would go without its finally clause
inner_raise_to_except == "except"

\* a raise inside "try: ... finally: engine.close()" runs the finally clause
inner_raise_target == "finally"

\* ChessEngine.close() on a handle: whether quit() is called, and the handle
\* afterwards (set to None in the finally clause, whether or not quit raised)
close(handle) == [quit |-> handle = "connected", engine |-> "None"]

InitApi ==
    /\ GameIdle /\ MoveIdle /\ LabelIdle /\ OnlyIdle /\ EngineIdle
    /\ BookIdle /\ MaterialIdle /\ StatsIdle /\ SafeIdle
    /\ ap_pc = "parse"
    /\ ap_in \in ApiRequests
    /\ ap_engine = "unbound"
    /\ ap_log = <<>>
    /\ ap_out = "none"

\* reading the PGN: no game raises HTTPException, and the upload of
\* /analyze-file may fail to read or decode; both go to the outer handler
ApiParse ==
    /\ ap_pc = "parse"
    /\ \E decoded \in (IF ap_in.handler = "analyze-file" THEN BOOLEAN ELSE {TRUE}) :
          /\ ap_pc' = IF decoded /\ ap_in.games > 0 THEN "construct" ELSE "except"
          /\ ap_log' = Append(ap_log, Event(IF decoded THEN "read_game" ELSE "decode", FALSE))
    /\ UNCHANGED <<ap_in, ap_engine, ap_out>>
    /\ UNCHANGED <<gameVars, moveVars, labelVars, onlyVars, engineVars>>
    /\ UNCHANGED <<bookVars, materialVars, statsVars, safeVars>>

\* engine = ChessEngine(path), which raises RuntimeError when it cannot
\* connect, then MoveEvaluator(engine) and PGNAnnotator(), which only
\* assign fields
ApiConstruct ==
    /\ ap_pc = "construct"
    /\ \E connected \in BOOLEAN :
          IF connected
          THEN /\ ap_engine' = "connected"
               /\ ap_log' = Append(ap_log, Event("ChessEngine", FALSE))
               /\ ap_pc' = "evaluate"
          ELSE /\ ap_engine' = "unbound"
               /\ ap_log' = Append(ap_log, Event("RuntimeError", FALSE))
               /\ ap_pc' = "except"
    /\ UNCHANGED <<ap_in, ap_out>>
    /\ UNCHANGED <<gameVars, moveVars, labelVars, onlyVars, engineVars>>
    /\ UNCHANGED <<bookVars, materialVars, statsVars, safeVars>>

\* evaluator.evaluate_game(game, ...): returns or raises; a failed
\* reset_engine() during it leaves the handle None, a later reconnection
\* sets it again
ApiEvaluate ==
    /\ ap_pc = "evaluate"
    /\ \E raised \in BOOLEAN, handle \in {"connected", "None"} :
          /\ ap_engine' = handle
          /\ ap_out' = IF raised THEN "raising" ELSE ap_out
          /\ ap_pc' = IF raised THEN inner_raise_target ELSE "analysis"
    /\ ap_log' = Append(ap_log, Event("evaluate_game", FALSE))
    /\ UNCHANGED ap_in
    /\ UNCHANGED <<gameVars, moveVars, labelVars, onlyVars, engineVars>>
    /\ UNCHANGED <<bookVars, materialVars, statsVars, safeVars>>

\* the games of the request analysed so far
analysed == Cardinality({i \in 1..Len(ap_log) : ap_log[i].ev = "GameAnalysis"})

\* GameAnalysis(...): returns or raises; /analyze-batch goes on with the
\* next game of its loop
ApiGameAnalysis ==
    /\ ap_pc = "analysis"
    /\ \E raised \in BOOLEAN :
          /\ ap_out' = IF raised THEN "raising" ELSE ap_out
          /\ ap_pc' = IF raised THEN inner_raise_target
                       ELSE IF analysed + 1 < ap_in.games THEN "evaluate"
                       ELSE "annotate"
          /\ ap_log' = Append(ap_log, Event(IF raised THEN "GameAnalysis raises"
                                            ELSE "GameAnalysis", FALSE))
    /\ UNCHANGED <<ap_in, ap_engine>>
    /\ UNCHANGED <<gameVars, moveVars, labelVars, onlyVars, engineVars>>
    /\ UNCHANGED <<bookVars, materialVars, statsVars, safeVars>>

\* annotation and the response object (for /analyze-batch AnalysisResult,
\* batch_annotate_games and create_batch_summary): "return response" or a
\* raise, both through the finally clause
ApiAnnotate ==
    /\ ap_pc = "annotate"
    /\ \E raised \in BOOLEAN :
          /\ ap_out' = IF raised THEN "raising" ELSE "success"
          /\ ap_pc' = IF raised THEN inner_raise_target ELSE "finally"
    /\ ap_log' = Append(ap_log, Event("annotate", FALSE))
    /\ UNCHANGED <<ap_in, ap_engine>>
    /\ UNCHANGED <<gameVars, moveVars, labelVars, onlyVars, engineVars>>
    /\ UNCHANGED <<bookVars, materialVars, statsVars, safeVars>>

\* "finally: engine.close()", then the return or the outer handler
ApiFinally ==
    /\ ap_pc = "finally"
    /\ ap_log' = Append(ap_log, Event("close", close(ap_engine).quit))
    /\ ap_engine' = close(ap_engine).engine
    /\ ap_pc' = IF ap_out = "success" THEN "done" ELSE "except"
    /\ UNCHANGED <<ap_in, ap_out>>
    /\ UNCHANGED <<gameVars, moveVars, labelVars, onlyVars, engineVars>>
    /\ UNCHANGED <<bookVars, materialVars, statsVars, safeVars>>

\* "except Exception as e": the failure response
ApiExcept ==
    /\ ap_pc = "except"
    /\ ap_out' = "failure"
    /\ ap_pc' = "done"
    /\ UNCHANGED <<ap_in, ap_engine, ap_log>>
    /\ UNCHANGED <<gameVars, moveVars, labelVars, onlyVars, engineVars>>
    /\ UNCHANGED <<bookVars, materialVars, statsVars, safeVars>>

\* ChessEngine.__del__ once the handler has returned: close() again
ApiDel ==
    /\ ap_pc = "done" /\ ap_engine # "unbound"
    /\ ap_log' = Append(ap_log, Event("close", close(ap_engine).quit))
    /\ ap_engine' = close(ap_engine).engine
    /\ ap_pc' = "collected"
    /\ UNCHANGED <<ap_in, ap_out>>
    /\ UNCHANGED <<gameVars, moveVars, labelVars, onlyVars, engineVars>>
    /\ UNCHANGED <<bookVars, materialVars, statsVars, safeVars>>

NextApi ==
    \/ ApiParse \/ ApiConstruct \/ ApiEvaluate \/ ApiGameAnalysis
    \/ ApiAnnotate \/ ApiFinally \/ ApiExcept \/ ApiDel

SpecApi == InitApi /\ [][NextApi]_vars

(***************************************************************************)
(* Properties.                                                              *)
(***************************************************************************)
\* Python's "v == True"
IsTrue(v) == v.n = 1

\* the assessments evaluate_move returned in SpecMove
Returned == mv_pc = "returned"

\* C1: the number of assessments of a game with brilliant == true is at
\* most the per-game cap of 2.
C1_BrilliantCap ==
    Cardinality({k \in 1..Len(assessments) : IsTrue(assessments[k].brilliant)}) <= 2

\* C2: every assessment evaluate_move returns has 0 <= loss_vs_best <= 1000.
C2_LossWithinClamp ==
    Returned => 0 <= mv_out.a.loss_vs_best /\ mv_out.a.loss_vs_best <= 1000

\* C3: whenever is_book is true get_move_label returns Book, also when the
\* brilliant verdict is true.
C3_BookFirst ==
    lb_pc = "returned" /\ lb_in.is_book => lb_out.label_a = "Book"

\* C4: in every assessment evaluate_move returns, a brilliant verdict implies
\* is_sacrifice or is_surprise.
C4_BrilliantNeedsSacrificeOrSurprise ==
    Returned /\ Truthy(mv_out.a.brilliant)
        => mv_out.a.is_sacrifice \/ mv_out.a.is_surprise

\* C5: in every assessment evaluate_move returns, is_only_move implies that
\* brilliant is false and the label is not Brilliant.
C5_OnlyMoveNeverBrilliant ==
    Returned /\ mv_out.a.is_only_move
        => ~Truthy(mv_out.a.brilliant) /\ mv_out.a.label # "Brilliant"

\* C6: an assessment whose loss_vs_best is 50 or more (above the near-best
\* window) never has the brilliant verdict: its brilliant flag is not True.
C6_NotNearBestNeverBrilliant ==
    Returned /\ mv_out.a.loss_vs_best >= 50 => ~IsTrue(mv_out.a.brilliant)

\* C7: for a game from the standard initial position, an assessment has
\* is_white true exactly when its move was played by White, i.e. on an odd
\* ply.
C7_IsWhiteFollowsPly ==
    board = StandardStart =>
        \A k \in 1..Len(assessments) :
            k <= Len(assessed_ply) =>
                (assessments[k].is_white <=> assessed_ply[k] % 2 = 1)

\* C8 as stated: evaluate_game returns exactly one assessment per mainline
\* move, the k-th with move_number k.
C8_OnePerMainlineMove ==
    pc = "returned" =>
        /\ Len(assessments) = n
        /\ \A k \in 1..Len(assessments) : assessments[k].move_number = k

\* C8 as amended: evaluate_game returns exactly one assessment per mainline
\* node whose move is not the null move, in game order, and the k-th
\* assessment has move_number k (also while the loop runs).
C8_OnePerNonNullMove ==
    /\ Len(assessed_ply) = Len(assessments)
    /\ \A k \in 1..Len(assessments) : assessments[k].move_number = k
    /\ \A k \in 1..Len(assessed_ply) :
          /\ assessed_ply[k] \in 1..Len(mainline)
          /\ ~mainline[assessed_ply[k]]
          /\ k > 1 => assessed_ply[k - 1] < assessed_ply[k]
    /\ pc = "returned" =>
          /\ Len(mainline) = n
          /\ Len(assessments) = Cardinality({i \in 1..n : ~mainline[i]})

\* a game with a null move and two assessed moves has been returned
C8_Witness ==
    /\ pc = "returned"
    /\ Len(assessments) >= 2
    /\ \E i \in 1..Len(mainline) : mainline[i]

Rank(l) ==
    CASE l = "Best Move" -> 1
      [] l = "Great Move" -> 2
      [] l = "Excellent" -> 3
      [] l = "Good" -> 4
      [] l = "Inaccuracy" -> 5
      [] l = "Mistake" -> 6
      [] l = "Blunder" -> 7
      [] OTHER -> 0

\* C10: for fixed is_book and brilliant flags and 0 <= a <= b, the label for
\* loss b is never a strictly better category than the label for loss a: the
\* two labels are equal, or both are in the order and b's comes later.
C10_LabelMonotonic ==
    lb_pc = "returned" =>
        \/ lb_out.label_a = lb_out.label_b
        \/ /\ Rank(lb_out.label_a) > 0
           /\ Rank(lb_out.label_a) < Rank(lb_out.label_b)

C10_Witness ==
    /\ lb_pc = "returned" /\ lb_in.a < lb_in.b
    /\ lb_out.label_a = "Great Move" /\ lb_out.label_b = "Blunder"

\* the label the table Great <= g, Excellent <= e, Good <= d, Inaccuracy <= 100,
\* Mistake <= 200, Blunder above assigns to a positive loss
TableLabel(loss, g, e, d) ==
    IF loss <= g THEN "Great Move"
    ELSE IF loss <= e THEN "Excellent"
    ELSE IF loss <= d THEN "Good"
    ELSE IF loss <= 100 THEN "Inaccuracy"
    ELSE IF loss <= 200 THEN "Mistake"
    ELSE "Blunder"

Abs(x) == IF x < 0 THEN -x ELSE x

\* C12: when the shallow list is not empty, loss_vs_best of the assessment
\* is abs(best_eval_after - eval_after), best_eval_after being the
\* evaluation of the first shallow entry and eval_after the evaluation of the
\* position after the played move; it is 0 when the played move is the first
\* shallow entry.
C12_LossIsAfterMoveDifference ==
    Returned /\ Len(mv_eng.shallow) > 0 =>
        /\ mv_out.a.loss_vs_best = Abs(mv_eng.shallow[1].eval - mv_eng.eval_after)
        /\ mv_eng.shallow[1].san = mv_out.a.san => mv_out.a.loss_vs_best = 0

\* C13: is_sacrifice of the assessment is true exactly when the move's
\* material change is at most -3 pawn units and eval_after - eval_before is
\* above -300.
C13_SacrificeRule ==
    Returned =>
        (mv_out.a.is_sacrifice <=>
            /\ mv_out.a.material_change <= -3
            /\ mv_out.a.eval_after - mv_out.a.eval_before > -300)

BestImprovement ==
    IF mv_out.a.is_white
    THEN mv_eng.shallow[1].eval - mv_out.a.eval_before
    ELSE mv_out.a.eval_before - mv_eng.shallow[1].eval

\* C17: an assessment that is not Book, not Brilliant and not Best (its loss
\* is not 0), whose best shallow alternative offers an improvement of at
\* least 300 and whose loss_vs_best is in 20..150, has the label Miss; an
\* assessment whose loss is above 200 (a Blunder by loss) has not.
C17_MissRule ==
    Returned =>
        /\ ( /\ mv_out.a.label \notin {"Book", "Brilliant"}
             /\ mv_out.a.loss_vs_best # 0
             /\ Len(mv_eng.shallow) > 0
             /\ BestImprovement >= 300
             /\ mv_out.a.loss_vs_best \in 20..150 )
           => mv_out.a.label = "Miss"
        /\ mv_out.a.loss_vs_best > 200 => mv_out.a.label # "Miss"

\* C18: when the engine answers an empty shallow list and an empty deep
\* list, evaluate_move does not raise: it returns an assessment with one
\* label of MoveLabel, is_surprise false and best_move equal to the played
\* move's notation.
C18_EmptyListsDegrade ==
    mv_pc \in {"returned", "raised"} /\ mv_eng.shallow = <<>> /\ mv_eng.deep = <<>> =>
        /\ mv_pc = "returned"
        /\ mv_out.a.label \in MoveLabel
        /\ ~mv_out.a.is_surprise
        /\ mv_out.a.best_move = mv_move.san

\* C15: a call of _detect_only_move with eval_before above -200 returns
\* false, whatever the number of legal moves, and makes no engine
\* evaluation request.
C15_AboveThresholdFalse ==
    om_pc = "returned" /\ om_in.eval_before > -200
        => ~om_out.result /\ om_out.requests = 0

\* a call just above the threshold on a position with a single legal move
\* has returned
C15_Witness ==
    /\ om_pc = "returned" /\ om_in.eval_before = -199
    /\ Len(om_in.quick) = 1 /\ ~om_out.result /\ om_out.requests = 0

CountOf(type, color) ==
    Cardinality({i \in 1..Len(en_in.pieces) :
                    en_in.pieces[i] = [type |-> type, color |-> color]})

\* material of the request's board by the table pawn 100, knight 320, bishop
\* 330, rook 500, queen 900, king 0, White's pieces counted positive
MaterialOnly ==
      100 * (CountOf("PAWN", TRUE) - CountOf("PAWN", FALSE))
    + 320 * (CountOf("KNIGHT", TRUE) - CountOf("KNIGHT", FALSE))
    + 330 * (CountOf("BISHOP", TRUE) - CountOf("BISHOP", FALSE))
    + 500 * (CountOf("ROOK", TRUE) - CountOf("ROOK", FALSE))
    + 900 * (CountOf("QUEEN", TRUE) - CountOf("QUEEN", FALSE))

\* the engine gave no usable result: the reconnect failed, the analysis
\* raised or was refused, or no info has a score
NoEngineResult ==
    \/ ~en_in.connected
    \/ ~en_in.valid
    \/ en_in.error
    \/ \A i \in 1..Len(en_in.infos) : ~en_in.infos[i].hasScore

\* C19: get_evaluation and get_top_moves never raise; get_evaluation
\* returns an integer, and without a usable engine result it returns the
\* material-only evaluation of the position; get_top_moves without a usable
\* engine result returns the empty list.
C19_DegradedResults ==
    en_pc # "raised" /\
    (en_pc = "returned" =>
        /\ ~en_out.raised
        /\ en_in.op = "get_evaluation" =>
              /\ en_out.eval \in Int
              /\ NoEngineResult => en_out.eval = MaterialOnly
        /\ en_in.op = "get_top_moves" /\ NoEngineResult => en_out.top_moves = <<>>)

\* get_evaluation has fallen back to the material of a board with a white
\* queen and a black knight after a failed reconnect
C19_Witness ==
    /\ en_pc = "returned" /\ en_in.op = "get_evaluation" /\ ~en_in.connected
    /\ en_in.pieces = <<[type |-> "QUEEN", color |-> TRUE],
                        [type |-> "KNIGHT", color |-> FALSE]>>
    /\ en_out.eval = 580

\* White is the side that mates, for a relative mate score v with side to
\* move turn: the mover mates (v > 0) and is White, or the mover is mated
\* (v <= 0, v = 0 when the mate is on the board) and is Black
WhiteMates(score, turn) == IF turn THEN score.v > 0 ELSE score.v <= 0

\* C20: a forced-mate score is reported as +10000 when White is the side
\* that mates and as -10000 when Black is, for every mate distance and
\* either side to move, by get_evaluation and by get_top_moves.
C20_MateSentinel ==
    en_pc = "returned" /\ ~NoEngineResult =>
        /\ en_in.op = "get_evaluation" /\ en_in.infos[1].hasScore
             /\ en_in.infos[1].score.kind = "mate"
           => en_out.eval =
                 IF WhiteMates(en_in.infos[1].score, en_in.turn) THEN 10000 ELSE -10000
        /\ en_in.op = "get_top_moves" /\ Len(en_out.top_moves) = Len(en_in.infos)
           => \A i \in 1..Len(en_in.infos) :
                 en_in.infos[i].score.kind = "mate" =>
                    en_out.top_moves[i].eval =
                       IF WhiteMates(en_in.infos[i].score, en_in.turn)
                       THEN 10000 ELSE -10000

C22_BookWindowNoRaise ==
    bk_pc # "call" /\ bk_pc # "off" =>
        /\ bk_pc = "returned"
        /\ bk_in.board.stackLen >= 16 => bk_out = "false"

\* C23: the brilliant count reported for a game, white_stats.brilliant_moves
\* plus black_stats.brilliant_moves, equals the number of its assessments
\* whose brilliant flag is true, whatever their labels.
C23_BrilliantCount ==
    st_pc = "done" /\ st_in # <<>> =>
        st_out.white_stats.brilliant_moves + st_out.black_stats.brilliant_moves
            = Len(SelectSeq(st_in, LAMBDA m : Truthy(m.brilliant)))

\* C30: a player with n >= 1 assessed moves has a penalty of at most 40 n and
\* an accuracy_percentage between 60 and 100; when both players have a move,
\* overall_quality is "Excellent" or "Good".
C30_AccuracyFloor ==
    st_pc = "done" /\ st_in # <<>> =>
        LET white_moves == SelectSeq(st_in, LAMBDA m : m.is_white)
            black_moves == SelectSeq(st_in, LAMBDA m : ~m.is_white)
            InRange(moves, stats) ==
                moves # <<>> =>
                    /\ total_penalty(moves) <= 40 * Len(moves)
                    /\ stats.accuracy_percentage >= 600
                    /\ stats.accuracy_percentage <= 1000
        IN /\ InRange(white_moves, st_out.white_stats)
           /\ InRange(black_moves, st_out.black_stats)
           /\ white_moves # <<>> /\ black_moves # <<>> =>
                 st_out.overall_quality \in {"Excellent", "Good"}

C30_Witness ==
    /\ st_pc = "done" /\ Len(st_in) = 2
    /\ st_in[1].is_white /\ ~st_in[2].is_white
    /\ st_in[1].label = "Blunder" /\ st_in[2].label = "Blunder"
    /\ st_out.white_stats.accuracy_percentage = 600
    /\ st_out.overall_quality = "Good"

\* the material of a piece list as the claim counts it: each piece type's
\* value times the excess of White's pieces of that type over Black's
MaterialByCount(pieces) ==
    LET Excess(t) ==
            Len(SelectSeq(pieces, LAMBDA p : p.type = t /\ p.color))
            - Len(SelectSeq(pieces, LAMBDA p : p.type = t /\ ~p.color))
    IN 1 * Excess("PAWN") + 3 * Excess("KNIGHT") + 3 * Excess("BISHOP")
       + 5 * Excess("ROOK") + 9 * Excess("QUEEN") + 0 * Excess("KING")

\* C24: material_change is material(after) - material(before) with pawn 1,
\* knight 3, bishop 3, rook 5, queen 9, king 0, White positive and Black
\* negative; it is 0 for a move that neither captures nor promotes, and a
\* board where both sides have the same pieces has material 0.
C24_MaterialChange ==
    mc_pc = "returned" =>
        /\ mc_out = MaterialByCount(board_after(mc_in)) - MaterialByCount(mc_in.pieces)
        /\ mc_in.captured = 0 /\ mc_in.promoted = 0 => mc_out = 0
        /\ (\A t \in PieceTypes :
                Len(SelectSeq(mc_in.pieces, LAMBDA p : p.type = t /\ p.color))
                = Len(SelectSeq(mc_in.pieces, LAMBDA p : p.type = t /\ ~p.color)))
           => _calculate_material_value(mc_in.pieces) = 0

C24_Witness ==
    /\ mc_pc = "returned"
    /\ mc_in.turn /\ mc_in.captured # 0 /\ mc_in.promoted # 0
    /\ mc_in.pieces[mc_in.captured].type = "ROOK"
    /\ mc_in.promotion = "QUEEN"
    /\ mc_out = 13

\* C25: evaluate_game evaluates each move on the position actually reached:
\* the board passed to evaluate_move with the k-th mainline move has exactly
\* the k - 1 moves before it applied.
C25_BoardFollowsGame ==
    Len(assessments) > 0 =>
        board.stackLen = assessed_ply[Len(assessments)] - 1

\* C26: in every assessment evaluate_move returns, the label is Brilliant
\* exactly when the brilliant flag is truthy.
C26_BrilliantLabelIffFlag ==
    Returned => (mv_out.a.label = "Brilliant" <=> Truthy(mv_out.a.brilliant))

\* a move flagged brilliant on a board that is also a book position
C26_Witness ==
    /\ Returned /\ Truthy(mv_out.a.brilliant) /\ mv_out.a.label = "Brilliant"
    /\ _detect_book_move(mv_board, mv_move) = "true"

AnalyseCalls == {i \in 1..Len(sa_log) : sa_log[i].call = "analyse"}

\* C28: _safe_analyze calls engine.analyse at most 3 times; it returns the
\* result of the first attempt that succeeds; after a failed attempt that is
\* not the third it resets the engine before anything else, and every
\* attempt after the first follows a reset; after a third failure it raises
\* that failure with no further reset; it ends with a result or an exception
\* and never falls out of its loop.
C28_RetryProtocol ==
    sa_pc # "off" =>
        /\ Cardinality(AnalyseCalls) <= 3
        /\ Cardinality(AnalyseCalls) = sa_attempt + (IF sa_pc = "try" THEN 0 ELSE 1)
        /\ sa_pc = "try" => sa_attempt < 3
        /\ \A i \in AnalyseCalls :
              /\ i > 1 => sa_log[i - 1].call = "reset" /\ sa_log[i - 1].error = ""
              /\ sa_log[i].error = "" => i = Len(sa_log) /\ sa_pc = "returned"
              /\ sa_log[i].error # "" /\ Cardinality({j \in AnalyseCalls : j <= i}) < 3 =>
                    IF i = Len(sa_log) THEN sa_pc = "except"
                    ELSE sa_log[i + 1].call = "reset"
              /\ sa_log[i].error # "" /\ Cardinality({j \in AnalyseCalls : j <= i}) = 3 =>
                    /\ i = Len(sa_log)
                    /\ sa_pc \in {"except", "raised"}
                    /\ sa_pc = "raised" =>
                          sa_out.kind = "exception" /\ sa_out.error = sa_log[i].error
        /\ sa_pc = "returned" =>
              /\ sa_out.kind = "result"
              /\ sa_log[Len(sa_log)].call = "analyse"
              /\ sa_out.result = sa_log[Len(sa_log)].result
              /\ sa_out.result # <<>>
        /\ sa_pc = "raised" => sa_out.kind = "exception" /\ sa_out.error # ""
        /\ sa_pc \in {"try", "except", "returned", "raised"}

\* the third attempt failed and its exception was raised, after two resets
C28_Witness ==
    /\ sa_pc = "raised" /\ Cardinality(AnalyseCalls) = 3
    /\ Len(sa_log) = 5 /\ sa_log[2].call = "reset" /\ sa_log[4].call = "reset"
    /\ sa_out.error = "EngineError"

\* the positions in ap_log of the calls of engine.close()
CloseCalls == {i \in 1..Len(ap_log) : ap_log[i].ev = "close"}

\* C29: in the three handlers, once ChessEngine was constructed, close() has
\* been called by the time the handler returns, after a success and after a
\* raise of evaluation, analysis construction or annotation alike; after
\* close() the engine handle is None, and a close() after the first one
\* quits nothing and leaves the handle None.
C29_EngineClosed ==
    /\ (ap_pc \in {"done", "collected"}
        /\ \E i \in 1..Len(ap_log) : ap_log[i].ev = "ChessEngine")
       => /\ CloseCalls # {}
          /\ ap_engine = "None"
    /\ \A i \in CloseCalls :
          /\ i = Len(ap_log) => ap_engine = "None"
          /\ (\E j \in CloseCalls : j < i) => ~ap_log[i].quit
    /\ ap_pc = "done" /\ ap_out = "success" => ap_log[Len(ap_log)].ev = "close"

\* a batch request whose second evaluation raised: closed, failure response,
\* and the close() of __del__ quit nothing
C29_Witness ==
    /\ ap_pc = "collected" /\ ap_in.handler = "analyze-batch"
    /\ ap_out = "failure" /\ analysed = 1
    /\ Cardinality(CloseCalls) = 2
    /\ ap_log[Len(ap_log) - 1].quit /\ ~ap_log[Len(ap_log)].quit

====
